---- MODULE Spec2Model ----
(***************************************************************************)
(* PyCKTools: the class-model extractor of pycktools/parser/code_parser.py *)
(* (CodeParser) and the run that drives it (pycktools_run.py).             *)
(*                                                                         *)
(* Syntax-tree nodes are records with a field `kind` (the astroid node     *)
(* class).  Text produced by as_string() is a sequence of the segments     *)
(* that the dots of the text separate: "self.a.b" is <<"self","a","b">>.   *)
(***************************************************************************)
EXTENDS Integers, Sequences, FiniteSets, TLC

VARIABLES
    heap,           \* the dict objects of the class: _CLASS_INIT and _METHOD_INIT
    classes,        \* self.classes: class name -> reference to a dict object
    inheritances,   \* self.inheritances: class name -> base class name
    pc,             \* where the run is: "parsing", "merged", "done"
    nfiles,         \* files handed to extract_code_data so far
    last,           \* how the last extract_code_data ended ("none" before the first)
    failures,       \* numbers of the files whose extraction failed
    results_class,  \* the class metric table (empty until computed)
    defs,           \* history: class name -> the ClassDef node last extracted for it
    origin,         \* history: class name -> number of the file of that node
    deferred,       \* history: <<child, base>> whose base was not yet registered
    node,           \* the node handed to count_lloc
    lloc            \* what count_lloc returned for it

vars == <<heap, classes, inheritances, pc, nfiles, last, failures, results_class,
          defs, origin, deferred, node, lloc>>

(***************************************************************************)
(* Bounds of the model.                                                    *)
(***************************************************************************)
MaxLen == 2     \* longest run of simple statements in one statement list
MaxDepth == 2   \* deepest nesting of compound statements
MaxClasses == 2 \* most top-level definitions in one source file
MaxFiles == 2   \* most files in one run

(***************************************************************************)
(* count_lloc and count_lloc_in_compound_statement                         *)
(***************************************************************************)
FunctionKinds == {"FunctionDef", "AsyncFunctionDef"}

SimpleKinds ==
    {"Assign", "AugAssign", "AnnAssign", "Expr", "Return", "Raise", "Delete",
     "Pass", "Break", "Continue", "Global", "Nonlocal", "Assert", "Import",
     "ImportFrom"}

CompoundKinds == {"If", "For", "While", "Try", "With"}

\* getattr(node, 'orelse', [])
OrElseOf(n) == IF "orelse" \in DOMAIN n THEN n.orelse ELSE <<>>

RECURSIVE count_lloc_in_compound_statement(_)
RECURSIVE LlocOfChildren(_)

count_lloc_in_compound_statement_body_only(n) ==
    1 + LlocOfChildren(n.body)

count_lloc_in_compound_statement(n) ==
    1 + LlocOfChildren(n.body) + LlocOfChildren(OrElseOf(n))

\* the loop `for child in ...: if isinstance(...): lloc += 1 elif ...: lloc += ...`
LlocOfChildren(children) ==
    IF children = <<>> THEN 0
    ELSE LET child == Head(children)
             rest == LlocOfChildren(Tail(children))
         IN  IF child.kind \in SimpleKinds THEN 1 + rest
             ELSE IF child.kind \in CompoundKinds
                  THEN count_lloc_in_compound_statement(child) + rest
                  ELSE rest

count_lloc(n) ==
    IF n.kind \notin FunctionKinds
    THEN [raised |-> "ValueError", value |-> 0]
    ELSE [raised |-> "none", value |-> LlocOfChildren(n.body)]

(***************************************************************************)
(* Syntax-tree nodes                                                       *)
(***************************************************************************)
Name(id) == [kind |-> "Name", name |-> id]
Attribute(e, a) == [kind |-> "Attribute", expr |-> e, attrname |-> a]
Call(f, a) == [kind |-> "Call", func |-> f, args |-> a]
BinOp(l, r) == [kind |-> "BinOp", left |-> l, right |-> r]
Const == [kind |-> "Const"]

\* the text a \o b of two texts, as dot-separated segments
Glue(a, b) == SubSeq(a, 1, Len(a) - 1) \o <<a[Len(a)] \o b[1]>> \o Tail(b)

RECURSIVE as_string(_)
RECURSIVE ArgsText(_)

\* NodeNG.as_string() of the expression kinds above
as_string(e) ==
    CASE e.kind = "Name" -> <<e.name>>
      [] e.kind = "Attribute" -> as_string(e.expr) \o <<e.attrname>>
      [] e.kind = "Call" ->
            Glue(Glue(Glue(as_string(e.func), <<"(">>), ArgsText(e.args)), <<")">>)
      [] e.kind = "BinOp" ->
            Glue(Glue(as_string(e.left), <<" + ">>), as_string(e.right))
      [] OTHER -> <<"0">>

ArgsText(args) ==
    IF args = <<>> THEN <<"">>
    ELSE IF Len(args) = 1 THEN as_string(args[1])
    ELSE Glue(Glue(as_string(args[1]), <<", ">>), ArgsText(Tail(args)))

(***************************************************************************)
(* The objects.  Every dict of the program is one of the two class-level   *)
(* objects: a name bound to `self._CLASS_INIT` or `self._METHOD_INIT`      *)
(* holds a reference to that object, not a copy of it.                     *)
(***************************************************************************)
EmptyMap == [x \in {} |-> x]

Put(f, k, v) == [x \in DOMAIN f \cup {k} |-> IF x = k THEN v ELSE f[x]]

_CLASS_INIT ==
    [accessed_attributes |-> {}, called |-> {}, methods |-> EmptyMap,
     attributes |-> {}, variables |-> {}, direct_children |-> 0,
     coupled_classes |-> {}]

_METHOD_INIT ==
    [accessed_attributes |-> {}, called |-> {}, lloc |-> 0,
     number_of_parameters |-> 0]

\* a reference to the method dict, as against a syntax-tree node
Ref(r) == [ref |-> r]

\* dict[key].add(x): `dict` is a dict object, or a node, which has no items
DictAdd(st, dict, key, x) ==
    IF "ref" \in DOMAIN dict
    THEN [st EXCEPT !.heap[dict.ref][key] = @ \cup {x}]
    ELSE [st EXCEPT !.raised = "TypeError"]

\* self.classes[class_name][key].add(x)
ClassAdd(st, class_name, key, x) ==
    [st EXCEPT !.heap[st.classes[class_name]][key] = @ \cup {x}]

(***************************************************************************)
(* The extraction.  An extraction state `st` holds the parser's objects    *)
(* (heap, classes, inheritances), the exception in flight (`raised`,       *)
(* "none" when there is none), and the history fields.  Statements run one *)
(* after the other: Then(x, F) is F of the state x.                        *)
(***************************************************************************)
Then(x, F(_)) == CHOOSE r \in {F(v) : v \in {x}} : TRUE

RECURSIVE _extract_used_attributes_recursive(_, _, _, _)
RECURSIVE WalkArgs(_, _, _, _)

\* `for arg in node.args: self._extract_used_attributes_recursive(arg, ...)`
WalkArgs(args, dict, class_name, st) ==
    IF args = <<>> \/ st.raised # "none" THEN st
    ELSE Then(_extract_used_attributes_recursive(Head(args), dict, class_name, st),
              LAMBDA s1 : WalkArgs(Tail(args), dict, class_name, s1))

\* lines 83-88, once the arguments are walked
RecordCall(n, dict, class_name, st) ==
    IF st.raised # "none" THEN st
    ELSE Then(DictAdd(st, dict, "called", as_string(n.func)),
              LAMBDA s2 :
                  IF s2.raised # "none" THEN s2
                  ELSE IF Len(as_string(n.func)) > 1        \* '.' in called_method
                          /\ <<as_string(n.func)[1]>> # <<class_name>>
                       THEN ClassAdd(s2, class_name, "coupled_classes",
                                     <<as_string(n.func)[1]>>)
                       ELSE s2)

\* lines 90-95
RecordAttribute(n, dict, class_name, st) ==
    IF as_string(n.expr) # <<"self">>
    THEN Then(ClassAdd(st, class_name, "coupled_classes", as_string(n.expr)),
              LAMBDA s1 : DictAdd(s1, dict, "accessed_attributes",
                                  as_string(n.expr) \o <<n.attrname>>))
    ELSE DictAdd(st, dict, "accessed_attributes", <<n.attrname>>)

_extract_used_attributes_recursive(n, dict, class_name, st) ==
    IF st.raised # "none" THEN st
    ELSE IF n.kind = "Call"
    THEN Then(WalkArgs(n.args, dict, class_name, st),
              LAMBDA s1 : RecordCall(n, dict, class_name, s1))
    ELSE IF n.kind = "Attribute" THEN RecordAttribute(n, dict, class_name, st)
    ELSE st

\* next(target.infer(), None).pytype(), then the normalisation of lines 106-110;
\* None is the empty text
None == <<>>

AttrInstance(target) ==
    IF target.infer.outcome = "Uninferable" THEN None
    ELSE IF target.infer.pytype[1] = "" THEN Tail(target.infer.pytype)
    ELSE target.infer.pytype

\* lines 103-114 for one target
SelfAttributeOfTarget(target, dict, class_name, st) ==
    IF target.kind # "AssignAttr" THEN st
    ELSE Then(ClassAdd(st, class_name, "attributes",
                       <<target.attrname, AttrInstance(target)>>),
              LAMBDA s1 : DictAdd(s1, dict, "accessed_attributes", <<target.attrname>>))

RECURSIVE SelfAttributesOfTargets(_, _, _, _)

SelfAttributesOfTargets(targets, dict, class_name, st) ==
    IF targets = <<>> \/ st.raised # "none" THEN st
    ELSE Then(SelfAttributeOfTarget(Head(targets), dict, class_name, st),
              LAMBDA s1 : SelfAttributesOfTargets(Tail(targets), dict, class_name, s1))

_extract_self_attributes(n, dict, class_name, st) ==
    SelfAttributesOfTargets(n.targets, dict, class_name, st)

\* lines 131-137 for one statement of the method
MethodNode(method_node, method_dict, class_name, st) ==
    Then(IF method_node.kind = "Assign"
         THEN _extract_self_attributes(method_node, method_dict, class_name, st)
         ELSE st,
         LAMBDA s1 :
             IF method_node.kind \in {"Expr", "Assign"}
             THEN _extract_used_attributes_recursive(
                      method_node.value, method_dict, class_name, s1)
             ELSE s1)

RECURSIVE MethodBody(_, _, _, _)

\* `for method_node in node.body:` of _extract_methods
MethodBody(body, method_dict, class_name, st) ==
    IF body = <<>> \/ st.raised # "none" THEN st
    ELSE Then(MethodNode(Head(body), method_dict, class_name, st),
              LAMBDA s1 : MethodBody(Tail(body), method_dict, class_name, s1))

_extract_methods(n, class_name, st) ==
    Then([st EXCEPT !.heap[Ref("_METHOD_INIT").ref].lloc = count_lloc(n).value,
                    !.heap[Ref("_METHOD_INIT").ref].number_of_parameters = Len(n.args)],
         LAMBDA s1 :
             Then(MethodBody(n.body, Ref("_METHOD_INIT"), class_name, s1),
                  LAMBDA s2 :
                      IF s2.raised # "none" THEN s2
                      ELSE [s2 EXCEPT !.heap[s2.classes[class_name]].methods =
                                          Put(@, n.name, Ref("_METHOD_INIT").ref)]))

_extract_inheritance(base, class_name, st) ==
    Then([st EXCEPT !.inheritances = Put(@, class_name, base.name)],
         LAMBDA s1 :
             IF base.name \in DOMAIN s1.classes
             THEN [s1 EXCEPT !.heap[s1.classes[base.name]].direct_children = @ + 1]
             ELSE [s1 EXCEPT !.deferred = @ \cup {<<class_name, base.name>>}])

RECURSIVE VariablesOfTargets(_, _, _)

\* `for target in class_node.targets: attr_name = target.name; ...variables.add`
VariablesOfTargets(targets, class_name, st) ==
    IF targets = <<>> \/ st.raised # "none" THEN st
    ELSE Then(IF "name" \in DOMAIN Head(targets)
              THEN ClassAdd(st, class_name, "variables", Head(targets).name)
              ELSE [st EXCEPT !.raised = "AttributeError"],
              LAMBDA s1 : VariablesOfTargets(Tail(targets), class_name, s1))

\* lines 157-171 for one node of the class body
ClassNode(class_node, class_name, st) ==
    Then(IF class_node.kind \in FunctionKinds
         THEN _extract_methods(class_node, class_name, st)
         ELSE st,
         LAMBDA s1 :
             Then(IF s1.raised = "none" /\ class_node.kind = "Assign"
                  THEN VariablesOfTargets(class_node.targets, class_name, s1)
                  ELSE s1,
                  LAMBDA s2 :
                      IF s2.raised = "none" /\ class_node.kind \in {"Expr", "Assign"}
                      THEN _extract_used_attributes_recursive(
                               class_node.value, [node |-> class_node], class_name, s2)
                      ELSE s2))

RECURSIVE ClassBody(_, _, _)

\* `for class_node in node.body:` of _extract_classes_data
ClassBody(body, class_name, st) ==
    IF body = <<>> \/ st.raised # "none" THEN st
    ELSE Then(ClassNode(Head(body), class_name, st),
              LAMBDA s1 : ClassBody(Tail(body), class_name, s1))

RECURSIVE Bases(_, _, _)

\* `for base in node.bases: if isinstance(base, astroid.Name): ...`
Bases(bases, class_name, st) ==
    IF bases = <<>> THEN st
    ELSE Then(IF Head(bases).kind = "Name"
              THEN _extract_inheritance(Head(bases), class_name, st)
              ELSE st,
              LAMBDA s1 : Bases(Tail(bases), class_name, s1))

\* lines 151-176 for one class definition
ExtractClass(n, st) ==
    Then([st EXCEPT !.classes = Put(@, n.name, "_CLASS_INIT"),
                    !.defs = Put(@, n.name, n),
                    !.origin = Put(@, n.name, st.fileno)],
         LAMBDA s1 :
             Then(ClassBody(n.body, n.name, s1),
                  LAMBDA s2 :
                      IF s2.raised # "none" THEN s2
                      ELSE Bases(n.bases, n.name, s2)))

RECURSIVE _extract_classes_data(_, _)

\* the argument is module.body
_extract_classes_data(body, st) ==
    IF body = <<>> \/ st.raised # "none" THEN st
    ELSE Then(IF Head(body).kind = "ClassDef" THEN ExtractClass(Head(body), st) ELSE st,
              LAMBDA s1 : _extract_classes_data(Tail(body), s1))

\* astroid.parse(code) raises on source that is not valid Python
extract_code_data(code, st) ==
    IF ~code.valid THEN [st EXCEPT !.raised = "AstroidSyntaxError"]
    ELSE _extract_classes_data(code.body, st)

(***************************************************************************)
(* The sources the run is given.  The classes are those of the test at the *)
(* end of code_parser.py, and variants of them.                            *)
(***************************************************************************)
AssignName(n) == [kind |-> "AssignName", name |-> n]
AssignAttr(e, a, i) == [kind |-> "AssignAttr", expr |-> e, attrname |-> a, infer |-> i]
TupleTarget == [kind |-> "Tuple"]
Inferred(t) == [outcome |-> "pytype", pytype |-> t]
Uninferable == [outcome |-> "Uninferable", pytype |-> <<>>]

Assign(t, v) == [kind |-> "Assign", targets |-> t, value |-> v]
Expr(v) == [kind |-> "Expr", value |-> v]
Return(v) == [kind |-> "Return", value |-> v]
If(t, b, e) == [kind |-> "If", test |-> t, body |-> b, orelse |-> e]
Pass == [kind |-> "Pass"]
FunctionDef(n, a, b) == [kind |-> "FunctionDef", name |-> n, args |-> a, body |-> b]
ClassDef(n, bs, b) == [kind |-> "ClassDef", name |-> n, bases |-> bs, body |-> b]

self == Name("self")
NewUsedClass == Call(Name("UsedClass"), <<>>)
print(a) == Call(Name("print"), a)

\* def __init__(self): pass
InitPass == FunctionDef("__init__", <<"self">>, <<Pass>>)

UsedClassDef ==
    ClassDef("UsedClass", <<>>, <<
        FunctionDef("__init__", <<"self">>, <<
            Assign(<<AssignAttr(self, "used_attr_1", Inferred(<<"builtins", "str">>))>>,
                   Const),
            Assign(<<AssignAttr(self, "used_attr_3", Inferred(<<"", "UsedClass">>))>>,
                   NewUsedClass)>>)>>)

\* a second definition of the name UsedClass
UsedClassAgain ==
    ClassDef("UsedClass", <<>>, <<
        Assign(<<AssignName("count")>>, Const),
        FunctionDef("reset", <<"self", "n">>, <<
            If(Name("n"), <<Expr(Call(Attribute(Name("Log"), "info"), <<>>)), Pass>>,
               <<Pass>>)>>)>>)

MySuperParentDef ==
    ClassDef("MySuperParent", <<>>,
             <<Assign(<<AssignName("super_parent_var")>>, Const), InitPass>>)

MyParentDef ==
    ClassDef("MyParent", <<Name("MySuperParent")>>,
             <<Assign(<<AssignName("parent_var")>>, Const), InitPass>>)

\* class MyParent(pkg.Base): a, b = 0, 0
MyParentTuple ==
    ClassDef("MyParent", <<Attribute(Name("pkg"), "Base")>>,
             <<InitPass, Assign(<<TupleTarget>>, Const)>>)

\* class MyParent(MySuperParent): ...; limit = UsedClass.MAX
MyParentAccess ==
    ClassDef("MyParent", <<Name("MySuperParent")>>,
             <<InitPass,
               Assign(<<AssignName("limit")>>, Attribute(Name("UsedClass"), "MAX"))>>)

MyClassInit ==
    FunctionDef("__init__", <<"self", "value">>, <<
        Assign(<<AssignAttr(self, "instance_variable", Uninferable)>>, Name("value")),
        Assign(<<AssignAttr(self, "UsedClassAttribute", Inferred(<<"", "UsedClass">>))>>,
               NewUsedClass),
        Assign(<<AssignName("usedClassVariable")>>, NewUsedClass)>>)

my_method ==
    FunctionDef("my_method", <<"self">>, <<
        Expr(print(<<Attribute(self, "instance_variable")>>)),
        Expr(print(<<Attribute(Attribute(self, "UsedClassAttribute"), "used_attr")>>)),
        Expr(print(<<Attribute(Attribute(self, "UsedClassAttribute"), "used_attr_2"),
                     Attribute(Attribute(self, "UsedClassAttribute"), "used_attr_3")>>))>>)

\* MyClass as the test has it: class_variable = UsedClass6()
MyClassDef ==
    ClassDef("MyClass", <<Name("MyParent")>>,
             <<Assign(<<AssignName("class_variable")>>, Call(Name("UsedClass6"), <<>>)),
               MyClassInit, my_method>>)

\* MyClass without the class-level call
MyClassPlain ==
    ClassDef("MyClass", <<Name("MyParent")>>, <<MyClassInit, my_method>>)

\* calls on the receiver and on the class itself, and calls below the top of a body
MyClassCalls ==
    ClassDef("MyClass", <<>>, <<
        FunctionDef("run", <<"self">>, <<
            Expr(Call(Attribute(self, "helper"), <<>>)),
            Expr(Call(Attribute(Name("MyClass"), "make"), <<>>)),
            Assign(<<AssignName("x")>>, Attribute(Name("MyClass"), "limit"))>>),
        FunctionDef("nested", <<"self", "flag">>, <<
            If(Name("flag"),
               <<Expr(Call(Attribute(Name("UsedClass"), "start"), <<>>))>>, <<Pass>>),
            Assign(<<AssignName("y")>>,
                   Call(Attribute(Call(Attribute(Name("Factory"), "make"), <<>>), "run"),
                        <<>>)),
            Assign(<<AssignName("z")>>,
                   BinOp(Call(Attribute(Name("Counter"), "next"), <<>>), Const)),
            Return(Call(Attribute(Name("UsedClass"), "stop"), <<>>))>>)>>)

\* def my_function(): ... at the top of a module
my_function ==
    FunctionDef("my_function", <<>>,
                <<Assign(<<AssignName("local_variable")>>, Const),
                  Expr(print(<<Name("local_variable")>>))>>)

ClassDefs ==
    {UsedClassDef, UsedClassAgain, MySuperParentDef, MyParentDef, MyParentTuple,
     MyParentAccess, MyClassDef, MyClassPlain, MyClassCalls}

RECURSIVE SeqsOf(_, _)

\* the sequences over S of length n
SeqsOf(S, n) ==
    IF n = 0 THEN {<<>>}
    ELSE {<<x>> \o t : x \in S, t \in SeqsOf(S, n - 1)}

SeqsUpTo(S, lo, hi) == UNION {SeqsOf(S, n) : n \in lo..hi}

\* the sources: the text of a module, or text that is not valid Python
Sources ==
    {[valid |-> TRUE, body |-> b] : b \in SeqsUpTo(ClassDefs \cup {my_function}, 1, MaxClasses)}
    \cup {[valid |-> FALSE, body |-> <<>>]}

(***************************************************************************)
(* The nodes count_lloc is given: function definitions whose bodies nest   *)
(* compound statements MaxDepth deep, and nodes that are no function.      *)
(***************************************************************************)
Leaf(k) == [kind |-> k]

\* statement kinds that count_lloc names in neither of its two tuples
OtherKinds == {"FunctionDef", "ClassDef", "Match"}

RunKinds == <<"Assign", "Expr", "Return">>

\* a run of n simple statements
Run(n) == [i \in 1..n |-> Leaf(RunKinds[((i - 1) % Len(RunKinds)) + 1])]

Runs(lo, hi) == {Run(n) : n \in lo..hi}

\* With has no orelse; Try has handlers and a finalbody besides
Compound(k, b, e) ==
    IF k = "With" THEN [kind |-> k, body |-> b]
    ELSE IF k = "Try"
         THEN [kind |-> k, body |-> b, handlers |-> <<Leaf("ExceptHandler")>>,
               orelse |-> e, finalbody |-> <<Leaf("Pass")>>]
         ELSE [kind |-> k, body |-> b, orelse |-> e]

RECURSIVE Compounds(_)

\* a statement list that holds the compound statement c, in one of three ways
Around(w, c) ==
    IF w = 1 THEN <<c>>
    ELSE IF w = 2 THEN <<Leaf("Assign"), c>>
    ELSE <<c, Leaf("Return")>>

\* compound statements nested at most d deep
Compounds(d) ==
    IF d = 0 THEN {}
    ELSE {Compound(k, b, e) :
             k \in CompoundKinds,
             b \in Runs(1, MaxLen) \cup {<<Leaf("Match"), Leaf("Assign")>>},
             e \in Runs(0, MaxLen)}
         \cup {Compound(k, Around(w, c), e) :
                 k \in CompoundKinds, w \in 1..2, e \in {<<>>, Run(MaxLen)},
                 c \in Compounds(d - 1)}
         \cup {Compound(k, <<Leaf("Pass")>>, <<c>>) :
                 k \in CompoundKinds, c \in Compounds(d - 1)}

MethodBodies ==
    Runs(1, MaxLen)
    \cup {<<Leaf(k)>> : k \in SimpleKinds \cup OtherKinds}
    \cup {Around(w, c) : w \in 1..3, c \in Compounds(MaxDepth)}

CountedNodes ==
    {[kind |-> "FunctionDef", name |-> "m", args |-> <<"self">>, body |-> b] :
        b \in MethodBodies}
    \cup {[kind |-> "AsyncFunctionDef", name |-> "m", args |-> <<"self">>, body |-> b] :
        b \in Runs(1, MaxLen)}
    \cup {[kind |-> k, body |-> Run(1)] : k \in {"ClassDef", "If", "Lambda"}}

(***************************************************************************)
(* The run                                                                 *)
(***************************************************************************)
NoNode == [kind |-> "none"]
Pending == [raised |-> "pending", value |-> 0]

InitParser ==
    /\ heap = ("_CLASS_INIT" :> _CLASS_INIT) @@ ("_METHOD_INIT" :> _METHOD_INIT)
    /\ classes = EmptyMap
    /\ inheritances = EmptyMap
    /\ pc = "parsing"
    /\ nfiles = 0
    /\ last = "none"
    /\ failures = {}
    /\ results_class = EmptyMap
    /\ defs = EmptyMap
    /\ origin = EmptyMap
    /\ deferred = {}

Init == InitParser /\ node = NoNode /\ lloc = Pending

\* the extraction state before a file, and the variables after it
Before ==
    [heap |-> heap, classes |-> classes, inheritances |-> inheritances,
     raised |-> "none", defs |-> defs, origin |-> origin, deferred |-> deferred,
     fileno |-> nfiles + 1]

\* one turn of the loop over the files: the file's failure is recorded and the
\* loop goes on
ParseFile(code) ==
    /\ pc = "parsing"
    /\ nfiles < MaxFiles
    /\ \E st \in {extract_code_data(code, Before)} :
           /\ heap' = st.heap
           /\ classes' = st.classes
           /\ inheritances' = st.inheritances
           /\ defs' = st.defs
           /\ origin' = st.origin
           /\ deferred' = st.deferred
           /\ last' = IF st.raised = "none" THEN "ok" ELSE st.raised
           /\ failures' = IF st.raised = "none" THEN failures
                          ELSE failures \cup {nfiles + 1}
    /\ nfiles' = nfiles + 1
    /\ UNCHANGED <<pc, results_class, node, lloc>>

RECURSIVE ApplyDeferred(_, _)

\* direct_children += 1 for each deferred edge whose base is now registered
ApplyDeferred(edges, h) ==
    IF edges = {} THEN h
    ELSE LET e == CHOOSE x \in edges : TRUE
             h1 == IF e[2] \in DOMAIN classes
                      /\ e[1] \in DOMAIN inheritances /\ inheritances[e[1]] = e[2]
                   THEN [h EXCEPT ![classes[e[2]]].direct_children = @ + 1]
                   ELSE h
         IN  ApplyDeferred(edges \ {e}, h1)

\* the pass over the inheritance map once every file is in
Merge ==
    /\ pc = "parsing"
    /\ nfiles >= 1
    /\ heap' = ApplyDeferred(deferred, heap)
    /\ deferred' = {}
    /\ pc' = "merged"
    /\ UNCHANGED <<classes, inheritances, nfiles, last, failures, results_class,
                   defs, origin, node, lloc>>

\* the class table: one row for each class of the registry
calculate_all_metrics ==
    [c \in DOMAIN classes |->
        [NOC |-> heap[classes[c]].direct_children,
         CBO |-> Cardinality(heap[classes[c]].coupled_classes),
         WMC |-> Cardinality(DOMAIN heap[classes[c]].methods)]]

Metrics ==
    /\ pc = "merged"
    /\ results_class' = calculate_all_metrics
    /\ pc' = "done"
    /\ UNCHANGED <<heap, classes, inheritances, nfiles, last, failures, defs, origin,
                   deferred, node, lloc>>

Next == (\E code \in Sources : ParseFile(code)) \/ Merge \/ Metrics

Spec == Init /\ [][Next]_vars

(***************************************************************************)
(* count_lloc on its own                                                   *)
(***************************************************************************)
InitLloc == InitParser /\ node \in CountedNodes /\ lloc = Pending

CountLloc ==
    /\ lloc = Pending
    /\ lloc' = count_lloc(node)
    /\ UNCHANGED <<heap, classes, inheritances, pc, nfiles, last, failures,
                   results_class, defs, origin, deferred, node>>

NextLloc == CountLloc

SpecLloc == InitLloc /\ [][NextLloc]_vars

(***************************************************************************)
(* What the registry holds, and what a definition holds                    *)
(***************************************************************************)
\* the record of class c, and of its method m
Record(c) == heap[classes[c]]
MethodRecord(c, m) == heap[Record(c).methods[m]]

\* the record of class c with its method records in place of the references
View(c) == [Record(c) EXCEPT !.methods = [m \in DOMAIN @ |-> heap[@[m]]]]

Range(f) == {f[i] : i \in DOMAIN f}

\* a parser that has extracted nothing, and that parser after the one class
NewParser ==
    [heap |-> ("_CLASS_INIT" :> _CLASS_INIT) @@ ("_METHOD_INIT" :> _METHOD_INIT),
     classes |-> EmptyMap, inheritances |-> EmptyMap, raised |-> "none",
     defs |-> EmptyMap, origin |-> EmptyMap, deferred |-> {}, fileno |-> 0]

Alone(d) == _extract_classes_data(<<d>>, NewParser)

\* the extraction of the class goes through its whole body
Completes(d) == Alone(d).raised = "none"

\* the class-level facts of the one class, extracted by a parser of its own
Own(d) == Alone(d).heap[Alone(d).classes[d.name]]

MethodDefs(d) == {n \in Range(d.body) : n.kind \in FunctionKinds}

RECURSIVE NodesInExpr(_)

\* the expression and every expression below it
NodesInExpr(e) ==
    {e} \cup
    CASE e.kind = "Call" ->
            NodesInExpr(e.func) \cup UNION {NodesInExpr(e.args[i]) : i \in DOMAIN e.args}
      [] e.kind = "Attribute" -> NodesInExpr(e.expr)
      [] e.kind = "BinOp" -> NodesInExpr(e.left) \cup NodesInExpr(e.right)
      [] OTHER -> {}

RECURSIVE NodesInBody(_)

\* every expression anywhere in a statement list
NodesInBody(stmts) ==
    UNION {LET s == stmts[i]
           IN  (IF "value" \in DOMAIN s THEN NodesInExpr(s.value) ELSE {})
               \cup (IF "test" \in DOMAIN s THEN NodesInExpr(s.test) ELSE {})
               \cup (IF "body" \in DOMAIN s THEN NodesInBody(s.body) ELSE {})
               \cup (IF "orelse" \in DOMAIN s THEN NodesInBody(s.orelse) ELSE {})
           : i \in DOMAIN stmts}

CallTexts(stmts) == {as_string(e.func) : e \in {x \in NodesInBody(stmts) : x.kind = "Call"}}

AttributeKey(e) ==
    IF as_string(e.expr) = <<"self">> THEN <<e.attrname>>
    ELSE as_string(e.expr) \o <<e.attrname>>

AttributeKeys(stmts) ==
    {AttributeKey(e) : e \in {x \in NodesInBody(stmts) : x.kind = "Attribute"}}

(***************************************************************************)
(* The claims                                                              *)
(***************************************************************************)

\* the definitions of the sources that bear the name A
Named(A) == {d \in ClassDefs : d.name = A}

\* C1: the record of a class holds only what definitions of that class give it:
\* its methods, variables, attributes and coupled classes are among those a
\* parser extracts from a definition named A, whatever classes of other names
\* were extracted.
C1_OwnFactsOnly ==
    \A A \in DOMAIN classes :
        /\ DOMAIN Record(A).methods \subseteq UNION {DOMAIN Own(d).methods : d \in Named(A)}
        /\ Record(A).variables \subseteq UNION {Own(d).variables : d \in Named(A)}
        /\ Record(A).attributes \subseteq UNION {Own(d).attributes : d \in Named(A)}
        /\ Record(A).coupled_classes
               \subseteq UNION {Own(d).coupled_classes : d \in Named(A)}

\* C2: once every file is in, direct_children of each class of the registry is
\* the number of classes the inheritance map gives that class as base.
C2_ChildrenCount ==
    pc \in {"merged", "done"} =>
        \A B \in DOMAIN classes :
            Record(B).direct_children =
                Cardinality({c \in DOMAIN inheritances : inheritances[c] = B})

\* C3: extract_code_data raises nothing on the syntax tree of a valid module:
\* it ends normally, unless the source was no valid Python at all.
C3_NeverRaises == last \in {"none", "ok", "AstroidSyntaxError"}

\* the places of the counted statements of a statement list: <<i>> for the i-th
\* statement, then 0 (body) or 1 (else body) and the place within it
RECURSIVE CountedPlaces(_)

CountedPlaces(stmts) ==
    UNION {LET s == stmts[i]
           IN  IF s.kind \in SimpleKinds THEN {<<i>>}
               ELSE IF s.kind \in CompoundKinds
               THEN {<<i>>}
                    \cup {<<i, 0>> \o q : q \in CountedPlaces(s.body)}
                    \cup {<<i, 1>> \o q : q \in CountedPlaces(OrElseOf(s))}
               ELSE {}
           : i \in DOMAIN stmts}

\* if c: a = 1; f()  else: a = 2
IfTwoElseOne == <<Compound("If", Run(2), Run(1))>>

\* C4: count_lloc of a method is the number of its logical statements: every
\* simple statement and every compound statement header, in the body and, at any
\* depth, in the bodies and else bodies of its compound statements; a conditional
\* of two simple statements with an else of one gives 4.
C4_LogicalStatements ==
    lloc.raised = "none" =>
        /\ lloc.value = Cardinality(CountedPlaces(node.body))
        /\ node.body = IfTwoElseOne => lloc.value = 4

\* a method with an else body and a nested compound statement has been counted
C4_Witness ==
    /\ lloc.raised = "none"
    /\ lloc.value = 6
    /\ \E i \in DOMAIN node.body :
          /\ node.body[i].kind = "If"
          /\ node.body[i].orelse # <<>>
          /\ \E j \in DOMAIN node.body[i].body :
                node.body[i].body[j].kind \in CompoundKinds

HolderAccess == Attribute(Attribute(self, "UsedClassAttribute"), "used_attr")

\* C5: a method that reads self.UsedClassAttribute.used_attr has the key
\* UsedClassAttribute.used_attr among its accessed attributes.
C5_QualifiedKey ==
    \A c \in DOMAIN classes :
        Completes(defs[c]) =>
            \A f \in MethodDefs(defs[c]) :
                HolderAccess \in NodesInBody(f.body) =>
                    <<"UsedClassAttribute", "used_attr">>
                        \in MethodRecord(c, f.name).accessed_attributes

\* C6: the coupled classes of a class are other classes: never the class itself,
\* never `self` nor a text that starts with `self.`
C6_CoupledAreOthers ==
    \A c \in DOMAIN classes :
        /\ <<c>> \notin Record(c).coupled_classes
        /\ \A t \in Record(c).coupled_classes : t[1] # "self"

\* C7: the record of each method of each class holds that method's facts: its
\* lloc is count_lloc of the method, its number_of_parameters the method's, and
\* its called set holds no call that is not in its body.
C7_OwnMethodFacts ==
    \A c \in DOMAIN classes :
        Completes(defs[c]) =>
            \A f \in MethodDefs(defs[c]) :
                /\ MethodRecord(c, f.name).lloc = count_lloc(f).value
                /\ MethodRecord(c, f.name).number_of_parameters = Len(f.args)
                /\ MethodRecord(c, f.name).called \subseteq CallTexts(f.body)

\* C8: a step that extracts anew a class the registry already holds leaves a
\* record with exactly the methods and variables of the later definition.
C8_Overwrites ==
    [][\A c \in DOMAIN classes :
          (origin'[c] = nfiles' /\ origin[c] # nfiles' /\ Completes(defs'[c])) =>
              /\ DOMAIN Record(c)'.methods = {f.name : f \in MethodDefs(defs'[c])}
              /\ Record(c)'.variables = Own(defs'[c]).variables]_vars

\* C9: when the extraction of a file fails the run goes on with the next file,
\* and no record of a class of another file changes.
C9_FailureIsolated ==
    [][(nfiles' = nfiles + 1 /\ last' # "ok") =>
          /\ pc' = "parsing"
          /\ \A c \in DOMAIN classes :
                origin'[c] # nfiles' => View(c)' = View(c)]_vars

\* C10: every call anywhere in the body of a method is in the called set of the
\* method, and the key of every attribute access in its accessed attributes.
C10_WalkReachesAll ==
    \A c \in DOMAIN classes :
        Completes(defs[c]) =>
            \A f \in MethodDefs(defs[c]) :
                /\ CallTexts(f.body) \subseteq MethodRecord(c, f.name).called
                /\ AttributeKeys(f.body)
                       \subseteq MethodRecord(c, f.name).accessed_attributes

====
